---- MODULE Spec2Model ----
(***************************************************************************)
(* A model of four parts of chemfiles:                                     *)
(*   - the token parser (parse<T>, scan) of parse.hpp,                     *)
(*   - the TRR binary trajectory codec (TRRFormat),                        *)
(*   - the InChI chemical identifier codec (IXAMolWrapper, InChIFormat),   *)
(*   - the gzip stream adapter (GzFile, gzstreambuf).                      *)
(* Each part has its own specification (SpecParse, SpecScan, ...) over the *)
(* same variables; a specification leaves the other parts' variables idle. *)
(***************************************************************************)
EXTENDS Integers, Sequences, FiniteSets, TLC

VARIABLES
    \* ---- parse<T>(input)
    ppc,        \* "ready" | "done"
    token,      \* the input: a sequence of one-character strings
    ptype,      \* the target type T
    presult,    \* what parse<T> did: a value, or the error it threw
    \* ---- scan(input, args...)
    spc,        \* "start" | "scanning" | "returned" | "failed"
    line,       \* the input line: a sequence of one-character strings
    stypes,     \* the types of args..., one per requested value
    input_,     \* tokens_iterator::input_, as its offset from initial_start_
    count_,     \* tokens_iterator::count_
    sout,       \* the values assigned to args... so far
    sresult,    \* what scan returned, or the error it threw
    \* ---- TRRFormat
    tfile,          \* the file: its frames, in order
    frame_offsets_, \* TRRFormat::frame_offsets_
    step_,          \* TRRFormat::step_
    natoms_,        \* TRRFormat::natoms_
    indexed_to,     \* the file offset up to which the index is built
    scans,          \* per frame, how often indexing has scanned it
    tlast,          \* the call before the last one
    tresult,        \* the last call and what it gave
    \* ---- InChIFormat::write_next and its IXAMolWrapper
    ipc,        \* where write_next is
    ierr,       \* the exception in flight ("": none)
    alive,      \* the IXAMolWrapper: "none" | "live" | "destroyed"
    frame,      \* the frame to write
    wi,         \* the loop index i of write_next's current loop
    wk,         \* create_stereo_tetrahedron: the atoms looked up so far
    status_,    \* IXAMolWrapper::status_: the entries' severities, in order
    mol,        \* IXAMolWrapper::handle_: the toolkit's molecule
    sink,       \* warnings sent to the diagnostic sink, by sender
    output,     \* the lines printed to file_
    budget,     \* how many more diagnostics the toolkit will report
    reported,   \* how many errors and warnings the toolkit has reported
    calls,      \* how many wrapper steps have called the toolkit
    checked,    \* whether check_for_errors followed the last toolkit call
    \* ---- InChIFormat::read_next
    rmol,       \* the toolkit's molecule for the line read
    \* ---- GzFile and its gzstreambuf
    disk,       \* the files: per path, the lines stored, or "absent"
    gz,         \* the gzstreambuf: whether open, on what path, how, where
    gerr,       \* the error the last call threw ("": none)
    glast       \* the last call and what it gave

parseVars == <<ppc, token, ptype, presult>>
scanVars == <<spc, line, stypes, input_, count_, sout, sresult>>
trrVars == <<tfile, frame_offsets_, step_, natoms_, indexed_to, scans, tlast, tresult>>
inchiVars == <<ipc, ierr, alive, frame, wi, wk, status_, mol, sink, output,
               budget, reported, calls, checked>>
readVars == <<rmol>>
gzVars == <<disk, gz, gerr, glast>>
vars == <<parseVars, scanVars, trrVars, inchiVars, readVars, gzVars>>

\* ------------------------------------------------------------------------
\* Bounds

\* Tokens of up to MaxTokLen characters over TokChars are all tried.
MaxTokLen == 3

\* Lines of up to MaxLineLen characters over LineChars are all tried.
MaxLineLen == 5

\* scan is called with 1 to MaxArgs output arguments.
MaxArgs == 3

\* Trajectories of 0 to MaxFrames frames are all tried.
MaxFrames == 3

\* Frames of 0 to MaxAtoms atoms are written.
MaxAtoms == 4

\* The toolkit reports at most MaxDiags diagnostics during one write.
MaxDiags == 1
MaxGzLines == 2
MaxStereos == 1

\* ------------------------------------------------------------------------
\* Characters and 64-bit integers

Digits == {"0", "1", "2", "3", "4", "5", "6", "7", "8", "9"}

DigitVal(c) ==
    CASE c = "0" -> 0 [] c = "1" -> 1 [] c = "2" -> 2 [] c = "3" -> 3
      [] c = "4" -> 4 [] c = "5" -> 5 [] c = "6" -> 6 [] c = "7" -> 7
      [] c = "8" -> 8 [] c = "9" -> 9

\* A 64-bit magnitude is four 16-bit limbs, least significant first: TLC's
\* own integers are 32 bits wide.
LimbBase == 2^16

ZeroMag == <<0, 0, 0, 0>>

\* m * 10 + d on 64 bits, and whether the result left the 64 bits.
MulAdd10(m, d) ==
    LET c1 == m[1] * 10 + d
        c2 == m[2] * 10 + (c1 \div LimbBase)
        c3 == m[3] * 10 + (c2 \div LimbBase)
        c4 == m[4] * 10 + (c3 \div LimbBase)
    IN  [mag |-> <<c1 % LimbBase, c2 % LimbBase, c3 % LimbBase, c4 % LimbBase>>,
         over |-> (c4 \div LimbBase) > 0]

\* a > b on magnitudes
GreaterMag(a, b) ==
    \E i \in 1..4 : a[i] > b[i] /\ \A j \in (i + 1)..4 : a[j] = b[j]

\* 2^63, the magnitude of INT64_MIN
Mag2p63 == <<0, 0, 0, 2^15>>

\* The two's complement bit pattern (as a magnitude) of -m on 64 bits.
NegateMag(m) ==
    LET n1 == (LimbBase - 1 - m[1]) + 1
        n2 == (LimbBase - 1 - m[2]) + (n1 \div LimbBase)
        n3 == (LimbBase - 1 - m[3]) + (n2 \div LimbBase)
        n4 == (LimbBase - 1 - m[4]) + (n3 \div LimbBase)
    IN  <<n1 % LimbBase, n2 % LimbBase, n3 % LimbBase, n4 % LimbBase>>

\* A 64-bit value, signed or unsigned: its sign and magnitude.
Val64(neg, mag) == [neg |-> neg /\ mag # ZeroMag, mag |-> mag]

\* ------------------------------------------------------------------------
\* Integer types

SignedNarrow == {"int8_t", "int16_t", "int32_t"}
UnsignedNarrow == {"uint8_t", "uint16_t"}
NarrowTypes == SignedNarrow \cup UnsignedNarrow
IntTypes == NarrowTypes \cup {"int64_t", "uint64_t"}

IsSignedType(T) == T \in SignedNarrow \cup {"int64_t"}

\* sizeof(T) * 8
BitsOf(T) ==
    CASE T \in {"int8_t", "uint8_t"} -> 8
      [] T \in {"int16_t", "uint16_t"} -> 16
      [] T = "int32_t" -> 32
      [] OTHER -> 64

\* std::numeric_limits<T>::max(), as a magnitude
MaxMagOf(T) ==
    CASE T = "int8_t" -> <<127, 0, 0, 0>>
      [] T = "uint8_t" -> <<255, 0, 0, 0>>
      [] T = "int16_t" -> <<32767, 0, 0, 0>>
      [] T = "uint16_t" -> <<65535, 0, 0, 0>>
      [] T = "int32_t" -> <<65535, 32767, 0, 0>>
      [] T = "int64_t" -> <<65535, 65535, 65535, 32767>>
      [] T = "uint64_t" -> <<65535, 65535, 65535, 65535>>

\* -std::numeric_limits<T>::min(), as a magnitude
MinMagOf(T) ==
    CASE T = "int8_t" -> <<128, 0, 0, 0>>
      [] T = "int16_t" -> <<32768, 0, 0, 0>>
      [] T = "int32_t" -> <<0, 32768, 0, 0>>
      [] T = "int64_t" -> Mag2p63
      [] OTHER -> ZeroMag

\* min(T) <= v <= max(T)
InRangeOf(T, v) ==
    IF v.neg THEN ~GreaterMag(v.mag, MinMagOf(T))
    ELSE ~GreaterMag(v.mag, MaxMagOf(T))

\* ------------------------------------------------------------------------
\* parse<T>

\* The characters tokens are made of: a sign of each kind, digits, a letter.
TokChars == {"-", "+", "0", "1", "9", "a"}

RECURSIVE SeqsUpTo(_, _)
SeqsUpTo(S, n) ==
    IF n = 0 THEN {<<>>}
    ELSE LET shorter == SeqsUpTo(S, n - 1)
         IN  shorter \cup {Append(s, c) : s \in {t \in shorter : Len(t) = n - 1}, c \in S}

\* Tokens at the limits of the integer types, and the spec's examples.
LimitTokens ==
    { <<"1","2","7">>, <<"1","2","8">>, <<"-","1","2","8">>, <<"-","1","2","9">>,
      <<"2","5","5">>, <<"2","5","6">>,
      <<"3","2","7","6","7">>, <<"3","2","7","6","8">>,
      <<"-","3","2","7","6","8">>, <<"-","3","2","7","6","9">>,
      <<"6","5","5","3","5">>, <<"6","5","5","3","6">>,
      <<"2","1","4","7","4","8","3","6","4","7">>,
      <<"2","1","4","7","4","8","3","6","4","8">>,
      <<"-","2","1","4","7","4","8","3","6","4","8">>,
      <<"-","2","1","4","7","4","8","3","6","4","9">>,
      <<"9","2","2","3","3","7","2","0","3","6","8","5","4","7","7","5","8","0","7">>,
      <<"9","2","2","3","3","7","2","0","3","6","8","5","4","7","7","5","8","0","8">>,
      <<"-","9","2","2","3","3","7","2","0","3","6","8","5","4","7","7","5","8","0","8">>,
      <<"-","9","2","2","3","3","7","2","0","3","6","8","5","4","7","7","5","8","0","9">>,
      <<"1","8","4","4","6","7","4","4","0","7","3","7","0","9","5","5","1","6","1","5">>,
      <<"1","8","4","4","6","7","4","4","0","7","3","7","0","9","5","5","1","6","1","6">>,
      <<"9","9","9","9","9","9","9","9","9","9","9","9","9","9","9","9","9","9","9","9">>,
      <<"1","2","a">>, <<"+","4","2">>, <<"0","0","7">> }

Tokens == SeqsUpTo(TokChars, MaxTokLen) \cup LimitTokens

\* The digits of input from position i on: where they end (the index of the
\* last digit, i - 1 when there is none), their value on 64 bits and whether
\* that value left the 64 bits.
RECURSIVE ReadDigits(_, _, _, _)
ReadDigits(input, i, mag, over) ==
    IF i <= Len(input) /\ input[i] \in Digits
    THEN LET r == MulAdd10(mag, DigitVal(input[i]))
         IN  ReadDigits(input, i + 1, r.mag, over \/ r.over)
    ELSE [last |-> i - 1, mag |-> mag, over |-> over]

\* The numeric prefix of input, `(+|-)?\d+` for a signed target and `+?\d+`
\* for an unsigned one: `end` is the number of characters it takes (0 when
\* there is no number), `erange` whether the number overflows the target.
NumericPrefix(input, signed) ==
    LET signs == IF signed THEN {"+", "-"} ELSE {"+"}
        hasSign == Len(input) >= 1 /\ input[1] \in signs
        first == IF hasSign THEN 2 ELSE 1
        r == ReadDigits(input, first, ZeroMag, FALSE)
        neg == hasSign /\ input[1] = "-"
        limit == IF ~signed THEN MaxMagOf("uint64_t")
                 ELSE IF neg THEN Mag2p63 ELSE MaxMagOf("int64_t")
    IN  [end |-> IF r.last < first THEN 0 ELSE r.last,
         value |-> Val64(neg, r.mag),
         erange |-> r.over \/ GreaterMag(r.mag, limit)]

\* check_parse_errors without its errno == ERANGE test.
check_parse_errors_no_erange(input, end, erange) ==
    IF input = <<>> \/ end # Len(input) THEN "can not convert" ELSE ""

\* check_parse_errors: "" when it returns, else the error it throws.
check_parse_errors(input, end, erange) ==
    IF input = <<>> \/ end # Len(input) THEN "can not convert"
    ELSE IF erange THEN "out of range"
    ELSE ""

Failure(what) == [ok |-> FALSE, error |-> what]
Success(v) == [ok |-> TRUE, value |-> v]

\* parse<int64_t> and parse<uint64_t>
parse64(input, signed) ==
    LET p == NumericPrefix(input, signed)
        e == check_parse_errors(input, p.end, p.erange)
    IN  IF e # "" THEN Failure(e) ELSE Success(p.value)

\* static_cast<Small>(value): the low bits of the two's complement pattern,
\* read as a Small. The result is a plain integer.
static_cast(Small, value) ==
    LET bits == IF value.neg THEN NegateMag(value.mag) ELSE value.mag
        low8 == bits[1] % 256
    IN  CASE Small = "uint8_t" -> low8
          [] Small = "int8_t" -> IF low8 >= 128 THEN low8 - 256 ELSE low8
          [] Small = "uint16_t" -> bits[1]
          [] Small = "int16_t" ->
                IF bits[1] >= 2^15 THEN bits[1] - LimbBase ELSE bits[1]
          [] Small = "int32_t" ->
                IF bits[2] >= 2^15 THEN (bits[2] - LimbBase) * LimbBase + bits[1]
                ELSE bits[2] * LimbBase + bits[1]

\* detail::convert_integer<Small, Large>
convert_integer(Small, value) ==
    IF BitsOf(Small) < 64 /\ ~value.neg /\ GreaterMag(value.mag, MaxMagOf(Small))
    THEN Failure("out of range for this type")
    ELSE Success(static_cast(Small, value))

\* detail::parse_integer<T>, signed and unsigned
parse_integer(T, input) ==
    LET value == parse64(input, IsSignedType(T))
    IN  IF ~value.ok THEN value ELSE convert_integer(T, value.value)

\* parse<T>: the 64-bit specialisations, or the generic template
parse(T, input) ==
    IF T \in {"int64_t", "uint64_t"} THEN parse64(input, IsSignedType(T))
    ELSE parse_integer(T, input)

NoResult == [ok |-> FALSE, error |-> "not called"]

ScanIdle ==
    /\ spc = "idle" /\ line = <<>> /\ stypes = <<>> /\ input_ = 0
    /\ count_ = 0 /\ sout = <<>> /\ sresult = NoResult

EmptyMol == [atoms |-> 0, bonds |-> <<>>, stereos |-> <<>>]

ReadIdle == rmol = EmptyMol

\* A gzstreambuf that is not open.
ClosedGz == [open |-> FALSE, gone |-> FALSE, path |-> "", mode |-> "", pos |-> 0]

GzIdle ==
    /\ disk = <<>>
    /\ gz = ClosedGz
    /\ gerr = ""
    /\ glast = [call |-> "none"]

InChIIdle ==
    /\ ipc = "idle" /\ ierr = "" /\ alive = "none" /\ frame = <<>> /\ wi = 0
    /\ wk = 0 /\ status_ = <<>> /\ mol = EmptyMol /\ sink = <<>>
    /\ output = <<>> /\ budget = 0 /\ reported = <<>> /\ calls = 0
    /\ checked = TRUE

TrrIdle ==
    /\ tfile = <<>> /\ frame_offsets_ = <<>> /\ step_ = 0 /\ natoms_ = 0
    /\ indexed_to = 0 /\ scans = <<>> /\ tlast = "idle" /\ tresult = NoResult

InitParse ==
    /\ ppc = "ready"
    /\ token \in Tokens
    /\ ptype \in IntTypes
    /\ presult = NoResult
    /\ ScanIdle
    /\ TrrIdle
    /\ InChIIdle
    /\ ReadIdle
    /\ GzIdle

\* One call of parse<ptype>(token).
ParseCall ==
    /\ ppc = "ready"
    /\ presult' = parse(ptype, token)
    /\ ppc' = "done"
    /\ UNCHANGED <<token, ptype, scanVars, trrVars, inchiVars, readVars, gzVars>>

NextParse == ParseCall

SpecParse == InitParse /\ [][NextParse]_vars

\* ---- claims about parse<T>

\* The token parsed as a 64-bit integer of T's signedness.
Parsed64 == parse64(token, IsSignedType(ptype))

\* C1 (as claimed): parse<T> for a T narrower than 64 bits fails for every
\* token whose 64-bit value lies outside [min(T), max(T)], above the maximum
\* and below the minimum alike.
C1_OutOfRangeFails ==
    (/\ ppc = "done"
     /\ ptype \in NarrowTypes
     /\ Parsed64.ok
     /\ ~InRangeOf(ptype, Parsed64.value))
    => ~presult.ok

\* The whole token is a number: `(+|-)?\d+`, or `+?\d+` for an unsigned target.
WholeNumber(tok, signed) ==
    LET signs == IF signed THEN {"+", "-"} ELSE {"+"}
        body == IF tok # <<>> /\ tok[1] \in signs THEN Tail(tok) ELSE tok
    IN  body # <<>> /\ \A i \in 1..Len(body) : body[i] \in Digits

RECURSIVE StripZeros(_)
StripZeros(ds) ==
    IF Len(ds) > 1 /\ ds[1] = "0" THEN StripZeros(Tail(ds)) ELSE ds

\* a > b on decimal numerals without leading zeros
DecGreater(a, b) ==
    \/ Len(a) > Len(b)
    \/ /\ Len(a) = Len(b)
       /\ \E i \in 1..Len(a) :
            /\ DigitVal(a[i]) > DigitVal(b[i])
            /\ \A j \in 1..(i - 1) : a[j] = b[j]

DecInt64Max == <<"9","2","2","3","3","7","2","0","3","6","8","5","4","7","7","5","8","0","7">>
DecInt64MinMag == <<"9","2","2","3","3","7","2","0","3","6","8","5","4","7","7","5","8","0","8">>
DecUint64Max == <<"1","8","4","4","6","7","4","4","0","7","3","7","0","9","5","5","1","6","1","5">>

\* The number the token spells does not fit the 64-bit target, decided on the
\* decimal numeral itself.
Overflows64(tok, signed) ==
    /\ WholeNumber(tok, signed)
    /\ LET hasSign == tok[1] \in {"+", "-"}
           numeral == StripZeros(IF hasSign THEN Tail(tok) ELSE tok)
           limit == IF ~signed THEN DecUint64Max
                    ELSE IF tok[1] = "-" THEN DecInt64MinMag ELSE DecInt64Max
       IN  DecGreater(numeral, limit)

\* C2: parse of an integer type fails, and returns no value, for every token
\* that is empty, that is not a number as a whole (characters are left after
\* the numeric prefix), or whose number overflows the 64-bit target.
C2_MalformedOrOverflowFails ==
    (/\ ppc = "done"
     /\ \/ token = <<>>
        \/ ~WholeNumber(token, IsSignedType(ptype))
        \/ Overflows64(token, IsSignedType(ptype)))
    => (~presult.ok /\ "value" \notin DOMAIN presult)

\* parse<int64_t>("99999999999999999999") has failed as out of range.
C2_Witness ==
    /\ ppc = "done"
    /\ ptype = "int64_t"
    /\ token = <<"9","9","9","9","9","9","9","9","9","9","9","9","9","9","9","9","9","9","9","9">>
    /\ presult = Failure("out of range")

\* ------------------------------------------------------------------------
\* scan(input, args...)

\* parse<std::string>
parse_string(input) ==
    IF input = <<>> THEN Failure("tried to read a string, got an empty value")
    ELSE Success(input)

\* parse<T> for the types scan is called with here
parse_any(T, input) ==
    IF T = "string" THEN parse_string(input) ELSE parse(T, input)

\* The characters lines are made of: two kinds of whitespace, a digit, a letter.
LineChars == {" ", "\t", "1", "a"}

is_whitespace(c) == c \in {" ", "\t", "\n", "\r"}

Lines == SeqsUpTo(LineChars, MaxLineLen)

ScanTypes == {"string", "int64_t"}

ArgTypes == SeqsUpTo(ScanTypes, MaxArgs) \ {<<>>}

\* The first index from i on that does not hold whitespace (Len + 1: none).
RECURSIVE SkipWhitespace(_, _)
SkipWhitespace(l, i) ==
    IF i <= Len(l) /\ is_whitespace(l[i]) THEN SkipWhitespace(l, i + 1) ELSE i

\* The first index from i on that holds whitespace (Len + 1: none).
RECURSIVE FindWhitespace(_, _)
FindWhitespace(l, i) ==
    IF i <= Len(l) /\ ~is_whitespace(l[i]) THEN FindWhitespace(l, i + 1) ELSE i

\* tokens_iterator::next that removes the value but not the whitespace it
\* skipped from input_.
next_keeps_whitespace(l, off, count) ==
    LET start == SkipWhitespace(l, off + 1)
        stop == FindWhitespace(l, start)
        size == stop - start
    IN  IF size = 0
        THEN [ok |-> FALSE, requested |-> count + 1, available |-> count]
        ELSE [ok |-> TRUE, result |-> SubSeq(l, start, stop - 1),
              input_ |-> off + size, count_ |-> count + 1]

\* tokens_iterator::next on the line l, with input_ at offset off (the line's
\* characters off + 1 .. Len(l) are left) and count_ = count.
next(l, off, count) ==
    LET start == SkipWhitespace(l, off + 1)
        stop == FindWhitespace(l, start)
        size == stop - start
    IN  IF size = 0
        THEN [ok |-> FALSE, requested |-> count + 1, available |-> count]
        ELSE [ok |-> TRUE, result |-> SubSeq(l, start, stop - 1),
              input_ |-> (start - 1) + size, count_ |-> count + 1]

\* tokens_iterator::read_count
read_count == input_

ParseIdle ==
    /\ ppc = "idle" /\ token = <<>> /\ ptype = "int64_t" /\ presult = NoResult

InitScan ==
    /\ spc = "start"
    /\ line \in Lines
    /\ stypes \in ArgTypes
    /\ input_ = 0
    /\ count_ = 0
    /\ sout = <<>>
    /\ sresult = NoResult
    /\ ParseIdle
    /\ TrrIdle
    /\ InChIIdle
    /\ ReadIdle
    /\ GzIdle

\* scan builds its tokens_iterator.
ScanBegin ==
    /\ spc = "start"
    /\ spc' = "scanning"
    /\ input_' = 0
    /\ count_' = 0
    /\ UNCHANGED <<line, stypes, sout, sresult, parseVars, trrVars, inchiVars, readVars, gzVars>>

\* One level of scan_impl: the next value is taken and parsed into its
\* argument; an error of either is caught by scan and thrown on, wrapped.
ScanImpl ==
    /\ spc = "scanning"
    /\ Len(sout) < Len(stypes)
    /\ LET n == next(line, input_, count_)
           v == parse_any(stypes[Len(sout) + 1], n.result)
       IN  IF ~n.ok
           THEN /\ spc' = "failed"
                /\ sresult' = [ok |-> FALSE, error |-> "error while reading",
                               cause |-> "tried to read values",
                               requested |-> n.requested,
                               available |-> n.available]
                /\ UNCHANGED <<input_, count_, sout>>
           ELSE /\ input_' = n.input_
                /\ count_' = n.count_
                /\ IF ~v.ok
                   THEN /\ spc' = "failed"
                        /\ sresult' = [ok |-> FALSE, error |-> "error while reading",
                                       cause |-> v.error]
                        /\ UNCHANGED sout
                   ELSE /\ sout' = Append(sout, v.value)
                        /\ UNCHANGED <<spc, sresult>>
    /\ UNCHANGED <<line, stypes, parseVars, trrVars, inchiVars, readVars, gzVars>>

\* Every argument is read: scan returns the iterator's read_count().
ScanReturn ==
    /\ spc = "scanning"
    /\ Len(sout) = Len(stypes)
    /\ sresult' = Success(read_count)
    /\ spc' = "returned"
    /\ UNCHANGED <<line, stypes, input_, count_, sout, parseVars, trrVars, inchiVars, readVars, gzVars>>

NextScan == ScanBegin \/ ScanImpl \/ ScanReturn

SpecScan == InitScan /\ [][NextScan]_vars

\* ---- claims about scan

\* Index i starts a field of l / ends a field of l.
FieldStart(l, i) == ~is_whitespace(l[i]) /\ (i = 1 \/ is_whitespace(l[i - 1]))
FieldEnd(l, i) == ~is_whitespace(l[i]) /\ (i = Len(l) \/ is_whitespace(l[i + 1]))

\* The number of whitespace-separated fields of l.
NumFields(l) == Cardinality({i \in 1..Len(l) : FieldStart(l, i)})

\* The offset just past the end of the n-th field of l.
EndOfField(l, n) ==
    CHOOSE e \in 1..Len(l) :
        /\ FieldEnd(l, e)
        /\ Cardinality({i \in 1..e : FieldEnd(l, i)}) = n

\* C3 (as claimed): a scan that requests n values from a line of k < n fields
\* fails with an error naming n values requested and k available.
C3_NamesRequestedAndAvailable ==
    (/\ spc = "failed"
     /\ sresult.cause = "tried to read values"
     /\ Len(stypes) > NumFields(line))
    => (/\ sresult.requested = Len(stypes)
        /\ sresult.available = NumFields(line))

\* C4: a successful scan of n values returns the offset just past the end of
\* the n-th field: the line up to there holds the n fields and the whitespace
\* before them, and nothing after the n-th field is counted.
C4_ReturnsEndOfLastField ==
    spc = "returned" =>
        /\ sresult.ok
        /\ NumFields(line) >= Len(stypes)
        /\ sresult.value = EndOfField(line, Len(stypes))

\* A scan of two values has returned on a line that starts with whitespace
\* and has text left after the second field.
C4_Witness ==
    /\ spc = "returned"
    /\ Len(stypes) = 2
    /\ line # <<>>
    /\ is_whitespace(line[1])
    /\ sresult.value < Len(line)

\* ------------------------------------------------------------------------
\* TRRFormat: random access over a binary trajectory

\* A frame on disk: a header declaring the atom count and the sizes of the
\* sections that follow, and these sections; len is the size of the whole.
FrameSet == [natoms : {1, 2}, len : {1, 2}]

Trajectories == SeqsUpTo(FrameSet, MaxFrames)

\* The offset of the frame of 0-based index i (of the end of file, i = Len).
RECURSIVE StartOf(_, _)
StartOf(file, i) ==
    IF i = 0 THEN 0 ELSE StartOf(file, i - 1) + file[i].len

FileSize(file) == StartOf(file, Len(file))

\* The frame that starts at offset off, as its 1-based place in the file.
FrameAt(file, off) == CHOOSE i \in 1..Len(file) : StartOf(file, i - 1) = off

IndexState(offs, pos, sc, nat) ==
    [frame_offsets_ |-> offs, indexed_to |-> pos, scans |-> sc, natoms_ |-> nat]

\* The loop of determine_frame_offsets, from offset pos on: one header is
\* read at a time, the offset of its frame recorded and the frame skipped,
\* until the index holds `want` frames or the file ends. The first header
\* fixes the atom count.
RECURSIVE ScanFrames(_, _, _, _, _, _)
ScanFrames(file, offs, pos, sc, nat, want) ==
    IF Len(offs) >= want \/ pos >= FileSize(file)
    THEN IndexState(offs, pos, sc, nat)
    ELSE LET i == FrameAt(file, pos)
         IN  ScanFrames(file, Append(offs, pos), pos + file[i].len,
                        [sc EXCEPT ![i] = @ + 1],
                        IF nat = 0 THEN file[i].natoms ELSE nat, want)

\* determine_frame_offsets that goes on from the last offset it recorded,
\* the start of a frame it has indexed already.
determine_frame_offsets_rescan(file, offs, pos, sc, nat, want) ==
    ScanFrames(file, offs, IF offs = <<>> THEN 0 ELSE offs[Len(offs)], sc, nat, want)

\* determine_frame_offsets: the index is extended to `want` frames, or to
\* the end of the file. It goes on from where it stopped.
determine_frame_offsets(file, offs, pos, sc, nat, want) ==
    ScanFrames(file, offs, pos, sc, nat, want)

\* The index built for one frame less than asked.
Indexed_one_short(want) ==
    determine_frame_offsets(tfile, frame_offsets_, indexed_to, scans, natoms_, want - 1)

\* The index as the call with `want` leaves it.
Indexed(want) ==
    determine_frame_offsets(tfile, frame_offsets_, indexed_to, scans, natoms_, want)

InitTRR ==
    /\ tfile \in Trajectories
    /\ frame_offsets_ = <<>>
    /\ step_ = 0
    /\ natoms_ = 0
    /\ indexed_to = 0
    /\ scans = [i \in 1..Len(tfile) |-> 0]
    /\ tlast = "open"
    /\ tresult = [op |-> "open"]
    /\ ParseIdle
    /\ ScanIdle
    /\ InChIIdle
    /\ ReadIdle
    /\ GzIdle

SetIndex(ix) ==
    /\ frame_offsets_' = ix.frame_offsets_
    /\ indexed_to' = ix.indexed_to
    /\ scans' = ix.scans
    /\ natoms_' = ix.natoms_

\* read_step(step, frame), as called by the user or by read.
read_step(op, step) ==
    LET ix == Indexed(step + 1)
    IN  /\ SetIndex(ix)
        /\ tlast' = tresult.op
        /\ IF step >= Len(ix.frame_offsets_)
           THEN /\ tresult' = [op |-> op, step |-> step, ok |-> FALSE,
                               error |-> "step out of bounds"]
                /\ UNCHANGED step_
           ELSE LET header == tfile[FrameAt(tfile, ix.frame_offsets_[step + 1])]
                IN  IF header.natoms # ix.natoms_
                    THEN /\ tresult' = [op |-> op, step |-> step, ok |-> FALSE,
                                        error |-> "inconsistent number of atoms"]
                         /\ UNCHANGED step_
                    ELSE /\ tresult' = [op |-> op, step |-> step, ok |-> TRUE,
                                        frame |-> header]
                         /\ step_' = step + 1
        /\ UNCHANGED <<tfile, parseVars, scanVars, inchiVars, readVars, gzVars>>

\* TRRFormat::read_step
ReadStep == \E step \in 0..MaxFrames : read_step("read_step", step)

\* TRRFormat::read: the frame at step_
Read == read_step("read", step_)

\* TRRFormat::nsteps: the whole file is indexed, and the frames are counted.
NSteps ==
    LET ix == Indexed(MaxFrames + 1)
    IN  /\ SetIndex(ix)
        /\ tlast' = tresult.op
        /\ tresult' = [op |-> "nsteps", ok |-> TRUE, count |-> Len(ix.frame_offsets_)]
        /\ UNCHANGED <<step_, tfile, parseVars, scanVars, inchiVars, readVars, gzVars>>

NextTRR == ReadStep \/ Read \/ NSteps

SpecTRR == InitTRR /\ [][NextTRR]_vars

\* ---- claims about TRRFormat

\* Every frame declares the atom count of the first.
Consistent(file) == \A i \in 1..Len(file) : file[i].natoms = file[1].natoms

IsPrefix(a, b) == Len(a) <= Len(b) /\ SubSeq(b, 1, Len(a)) = a

\* The frame a reader gets that starts at offset pos and reads frame after
\* frame, after it has discarded k of them.
RECURSIVE SequentialRead(_, _, _)
SequentialRead(file, pos, k) ==
    LET i == FrameAt(file, pos)
    IN  IF k = 0 THEN file[i] ELSE SequentialRead(file, pos + file[i].len, k - 1)

\* C5: nsteps() is the number of frames N of the file, and read_step(k), for
\* k < N and after any calls, gives the frame a sequential reading from the
\* start gives after the first k: the k-th frame of the file (counted from 0).
C5_RandomAccessIsSequential ==
    /\ tresult.op = "nsteps" => tresult.count = Len(tfile)
    /\ (/\ tresult.op = "read_step"
        /\ tresult.step < Len(tfile)
        /\ Consistent(tfile))
       => (tresult.ok /\ tresult.frame = SequentialRead(tfile, 0, tresult.step))

\* read_step(0) has given the first frame right after read_step(2) on a file
\* of three frames that differ.
C5_Witness ==
    /\ Len(tfile) = 3
    /\ tfile[1] # tfile[3]
    /\ tlast = "read_step"
    /\ tresult.op = "read_step"
    /\ tresult.step = 0
    /\ tresult.ok
    /\ Len(frame_offsets_) = 3

\* C6: the offset table only grows by appending, no frame is scanned for
\* the index more than once, and a call that asks for an index already built
\* (nsteps() after nsteps()) scans nothing and leaves the table as it was.
C6_IndexBuiltOnce ==
    [][/\ IsPrefix(frame_offsets_, frame_offsets_')
       /\ \A i \in 1..Len(tfile) : scans'[i] <= 1
       /\ (tresult.op = "nsteps" /\ tresult'.op = "nsteps")
          => (scans' = scans /\ frame_offsets_' = frame_offsets_)]_vars

\* nsteps() has been called twice in a row on a file of two frames or more.
C6_Witness ==
    /\ Len(tfile) >= 2
    /\ tlast = "nsteps"
    /\ tresult.op = "nsteps"
    /\ \A i \in 1..Len(tfile) : scans[i] = 1

\* ------------------------------------------------------------------------
\* InChIFormat::write_next and IXAMolWrapper

\* ---- strings, as sequences of characters

Str_tetrahedron == <<"t","e","t","r","a","h","e","d","r","o","n">>
Str_antirectangle == <<"a","n","t","i","r","e","c","t","a","n","g","l","e">>
Str_even == <<"e","v","e","n">>
Str_odd == <<"o","d","d">>
Str_none == <<"n","o","n","e">>
Str_unknown == <<"u","n","k","n","o","w","n">>

\* center_type + parity, with center_type = "tetrahedron_" or "antirectangle_"
ChiralityOf(center, parity) == center \o <<"_">> \o parity

\* string_view::starts_with
starts_with(str, prefix) ==
    Len(str) >= Len(prefix) /\ SubSeq(str, 1, Len(prefix)) = prefix

\* string_view::substr(pos): it throws std::out_of_range when pos > size()
substr_throws(str, pos) == pos > Len(str)
substr(str, pos) == SubSeq(str, pos + 1, Len(str))

\* The position from which write_next reads the parity off the property.
ParityPos == 12

\* ---- frames

\* is_zero_dimensions' eps. Positions are whole numbers of this unit, along
\* one axis.
Eps == 1

\* distance(i, j) in the frame f
Distance(f, i, j) ==
    IF f.pos[i] >= f.pos[j] THEN f.pos[i] - f.pos[j] ELSE f.pos[j] - f.pos[i]

\* is_zero_dimensions that takes a distance of eps for a dimension
is_zero_dimensions_strict(f) ==
    IF f.size = 0 \/ f.size = 1 THEN TRUE
    ELSE \A i \in 1..(f.size - 1) : ~(Distance(f, 0, i) >= Eps)

\* is_zero_dimensions
is_zero_dimensions(f) ==
    IF f.size = 0 \/ f.size = 1 THEN TRUE
    ELSE \A i \in 1..(f.size - 1) : ~(Distance(f, 0, i) > Eps)

\* The bonds S in the order the topology keeps them: sorted.
RECURSIVE SortedBonds(_)
SortedBonds(S) ==
    IF S = {} THEN <<>>
    ELSE LET first == CHOOSE b \in S : \A c \in S :
                          b[1] < c[1] \/ (b[1] = c[1] /\ b[2] <= c[2])
         IN  <<first>> \o SortedBonds(S \ {first})

\* The frames written here. Bonds are pairs i < j of atom indices, from atom 0
\* to any atom and from atom 1 to atoms 2 and 3; atoms 0 and 1 may carry a
\* chirality property; the last atom may lie away from the others, and may be
\* a hydrogen when it is the fourth neighbour of atom 0.
HubAtoms == {0, 1}

HubBonds(n) ==
    {b \in (0..(n - 1)) \X (0..(n - 1)) :
         b[1] < b[2] /\ (b[1] = 0 \/ (b[1] = 1 /\ b[2] <= 3))}

ChiralityValues ==
    { <<>>,
      ChiralityOf(Str_tetrahedron, Str_even),
      ChiralityOf(Str_tetrahedron, Str_odd),
      ChiralityOf(Str_antirectangle, Str_even),
      Str_tetrahedron }

Chiralities(n) ==
    {c \in [0..(n - 1) -> ChiralityValues] : \A i \in 0..(n - 1) : i \notin HubAtoms => c[i] = <<>>}

Positions(n) ==
    {p \in [0..(n - 1) -> {0, Eps, Eps + 1}] : \A i \in 0..(n - 1) : i < n - 1 => p[i] = 0}

Elements(n, B) ==
    {e \in [0..(n - 1) -> {1, 6}] : \A i \in 0..(n - 1) :
         (i < n - 1 \/ i < 4 \/ ~({<<0, j>> : j \in {1, 2, 3, i}} \subseteq B))
             => e[i] = 6}

FramesWith(n, B) ==
    { [size |-> n, chirality |-> c, pos |-> p, elem |-> e,
       bonds |-> SortedBonds(B),
       orders |-> [k \in 1..Cardinality(B) |-> "SINGLE"]] :
         c \in Chiralities(n), p \in Positions(n), e \in Elements(n, B) }

FramesOf(n) == UNION {FramesWith(n, B) : B \in SUBSET HubBonds(n)}

WriteFrames == UNION {FramesOf(n) : n \in 0..MaxAtoms}

\* write_next's adj_list: per atom, its bonded neighbours in the order the
\* bonds give them.
RECURSIVE AdjList(_, _, _)
AdjList(f, k, adj) ==
    IF k > Len(f.bonds) THEN adj
    ELSE LET bond == f.bonds[k]
             one == [adj EXCEPT ![bond[1]] = Append(@, bond[2])]
         IN  AdjList(f, k + 1, [one EXCEPT ![bond[2]] = Append(@, bond[1])])

\* adj_list with every neighbour one atom further.
adj_list_shifted(f) ==
    LET adj == AdjList(f, 1, [i \in 0..(f.size - 1) |-> <<>>])
    IN  [i \in 0..(f.size - 1) |-> [k \in 1..Len(adj[i]) |-> adj[i][k] + 1]]

adj_list(f) == AdjList(f, 1, [i \in 0..(f.size - 1) |-> <<>>])

\* ---- the toolkit's status channel

Severities == {"WARNING", "ERROR"}

\* What the toolkit may add to the status during one wrapper step.
Diags(left) == SeqsUpTo(Severities, left)

CountOf(st, severity) == Len(SelectSeq(st, LAMBDA e : e = severity))

\* IXAMolWrapper::check_for_errors on the status st: the warnings it sends to
\* the sink, whether it throws, and the status it leaves.
check_for_errors(st) ==
    [warned |-> CountOf(st, "WARNING"),
     throws |-> CountOf(st, "ERROR") > 0,
     status |-> IF CountOf(st, "ERROR") > 0 THEN st ELSE <<>>]

\* The toolkit is called and reports d.
Report(d) ==
    /\ budget' = budget - Len(d)
    /\ reported' = [errors |-> reported.errors + CountOf(d, "ERROR"),
                    warnings |-> reported.warnings + CountOf(d, "WARNING")]
    /\ calls' = calls + 1

\* Toolkit calls that report d, and the check_for_errors after them.
CheckedCalls(d) ==
    LET c == check_for_errors(status_ \o d)
    IN  /\ Report(d)
        /\ status_' = c.status
        /\ sink' = [sink EXCEPT !.ixa = @ + c.warned]
        /\ checked' = TRUE
        /\ ierr' = IF c.throws THEN "problem in InChI IXA" ELSE ""

Throws(d) == check_for_errors(status_ \o d).throws

\* ---- write_next

InitWrite ==
    /\ ipc = "w_start"
    /\ ierr = ""
    /\ alive = "none"
    /\ frame \in WriteFrames
    /\ wi = 0
    /\ wk = 0
    /\ status_ = <<>>
    /\ mol = EmptyMol
    /\ sink = [ixa |-> 0, writer |-> 0]
    /\ output = <<>>
    /\ budget \in 0..MaxDiags
    /\ reported = [errors |-> 0, warnings |-> 0]
    /\ calls = 0
    /\ checked = TRUE
    /\ ParseIdle
    /\ ScanIdle
    /\ TrrIdle
    /\ ReadIdle
    /\ GzIdle

\* Where write_next goes on: the loop over the atoms for the stereocenters,
\* the loop over the bonds, the loop over the atoms.
LoopStereo(i) ==
    IF i < frame.size THEN [pc |-> "w_stereo", i |-> i]
    ELSE [pc |-> "w_strings", i |-> 0]

LoopBonds(i) ==
    IF i < Len(frame.bonds) THEN [pc |-> "w_bond_atom1", i |-> i]
    ELSE IF is_zero_dimensions(frame) THEN LoopStereo(0)
    ELSE [pc |-> "w_strings", i |-> 0]

LoopAtoms(i) ==
    IF i < frame.size THEN [pc |-> "w_atoms", i |-> i] ELSE LoopBonds(0)

Goto(l) == ipc' = l.pc /\ wi' = l.i

Running == alive = "live" /\ ierr = ""

\* IXAMolWrapper writer: the constructor. When it throws, no destructor runs.
WriteOpen ==
    /\ ipc = "w_start" /\ alive = "none" /\ ierr = ""
    /\ \E d \in Diags(budget) :
        /\ CheckedCalls(d)
        /\ IF Throws(d)
           THEN UNCHANGED <<ipc, wi, alive>>
           ELSE alive' = "live" /\ Goto(LoopAtoms(0))
    /\ UNCHANGED <<frame, wk, mol, output, parseVars, scanVars, trrVars, readVars, gzVars>>

\* writer.create_atom(frame[i], coords[i])
WriteAtom ==
    /\ ipc = "w_atoms" /\ Running
    /\ \E d \in Diags(budget) :
        /\ CheckedCalls(d)
        /\ IF Throws(d)
           THEN UNCHANGED <<ipc, wi, mol>>
           ELSE /\ mol' = [mol EXCEPT !.atoms = @ + 1]
                /\ Goto(LoopAtoms(wi + 1))
    /\ UNCHANGED <<alive, frame, wk, output, parseVars, scanVars, trrVars, readVars, gzVars>>

\* create_bond: atom(bond[0]), then atom(bond[1])
WriteBondAtom ==
    /\ ipc \in {"w_bond_atom1", "w_bond_atom2"} /\ Running
    /\ \E d \in Diags(budget) :
        /\ CheckedCalls(d)
        /\ IF Throws(d) THEN UNCHANGED ipc
           ELSE ipc' = IF ipc = "w_bond_atom1" THEN "w_bond_atom2" ELSE "w_bond_new"
    /\ UNCHANGED <<alive, frame, wi, wk, mol, output, parseVars, scanVars, trrVars, readVars, gzVars>>

\* create_bond that sets a double bond for the wedge orders.
bond_type_wedge_double(order) ==
    CASE order \in {"SINGLE", "AMIDE", "DATIVE_L", "DATIVE_R", "UP", "DOWN"} -> "IXA_BOND_TYPE_SINGLE"
      [] order \in {"DOUBLE", "EVEN_RECTANGLE", "ODD_RECTANGLE",
                    "WEDGE_UP", "WEDGE_DOWN", "WEDGE_EITHER"} -> "IXA_BOND_TYPE_DOUBLE"
      [] order = "TRIPLE" -> "IXA_BOND_TYPE_TRIPLE"
      [] order = "AROMATIC" -> "IXA_BOND_TYPE_AROMATIC"
      [] OTHER -> "not set"

\* The toolkit's bond type create_bond sets for a bond order.
bond_type(order) ==
    CASE order \in {"SINGLE", "AMIDE", "DATIVE_L", "DATIVE_R", "UP", "DOWN",
                    "WEDGE_UP", "WEDGE_DOWN", "WEDGE_EITHER"} -> "IXA_BOND_TYPE_SINGLE"
      [] order \in {"DOUBLE", "EVEN_RECTANGLE", "ODD_RECTANGLE"} -> "IXA_BOND_TYPE_DOUBLE"
      [] order = "TRIPLE" -> "IXA_BOND_TYPE_TRIPLE"
      [] order = "AROMATIC" -> "IXA_BOND_TYPE_AROMATIC"
      [] OTHER -> "not set"

\* create_bond: the bond is created and its type set.
WriteBond ==
    /\ ipc = "w_bond_new" /\ Running
    /\ \E d \in Diags(budget) :
        /\ CheckedCalls(d)
        /\ IF Throws(d)
           THEN UNCHANGED <<ipc, wi, mol>>
           ELSE /\ mol' = [mol EXCEPT !.bonds = Append(@,
                             [atoms |-> frame.bonds[wi + 1],
                              type |-> bond_type(frame.orders[wi + 1])])]
                /\ Goto(LoopBonds(wi + 1))
    /\ UNCHANGED <<alive, frame, wk, output, parseVars, scanVars, trrVars, readVars, gzVars>>

\* The test that takes 1 bond for too few, and 2 for enough.
too_few_bonds_below_two(neighbours) == Len(neighbours) <= 1

\* The test that finds no atom short of bonds.
too_few_bonds_never(neighbours) == FALSE

\* adj_list[i].size() <= 2
too_few_bonds(neighbours) == Len(neighbours) <= 2

\* One turn of the loop over the atoms of a zero-dimensional frame, up to the
\* call of create_stereo_tetrahedron and its assert.
WriteStereo ==
    /\ ipc = "w_stereo" /\ Running
    /\ LET chirality == frame.chirality[wi]
           neighbours == adj_list(frame)[wi]
       IN  IF ~starts_with(chirality, Str_tetrahedron)
           THEN Goto(LoopStereo(wi + 1)) /\ UNCHANGED <<sink, ierr>>
           ELSE IF too_few_bonds(neighbours)
           THEN /\ sink' = [sink EXCEPT !.writer = @ + 1]
                /\ Goto(LoopStereo(wi + 1))
                /\ UNCHANGED ierr
           ELSE IF substr_throws(chirality, ParityPos)
           THEN ierr' = "std::out_of_range" /\ UNCHANGED <<ipc, wi, sink>>
           ELSE IF ~(Len(neighbours) >= 3)
           THEN ierr' = "assert(a.size() >= 3)" /\ UNCHANGED <<ipc, wi, sink>>
           ELSE ipc' = "w_stereo_atoms" /\ UNCHANGED <<wi, sink, ierr>>
    /\ wk' = 0
    /\ UNCHANGED <<alive, frame, status_, mol, output, budget, reported, calls,
                   checked, parseVars, scanVars, trrVars, readVars, gzVars>>

\* How many atoms create_stereo_tetrahedron looks up: the center, a[0], a[1],
\* a[2], and a[3] when there is one.
Lookups(a) == IF Len(a) >= 4 THEN 5 ELSE 4

\* create_stereo_tetrahedron: atom(center), atom(a[0]), ... one at a time
WriteStereoAtom ==
    /\ ipc = "w_stereo_atoms" /\ Running
    /\ \E d \in Diags(budget) :
        /\ CheckedCalls(d)
        /\ IF Throws(d) THEN UNCHANGED <<ipc, wk>>
           ELSE /\ wk' = wk + 1
                /\ ipc' = IF wk + 1 = Lookups(adj_list(frame)[wi])
                          THEN "w_stereo_new" ELSE "w_stereo_atoms"
    /\ UNCHANGED <<alive, frame, wi, mol, output, parseVars, scanVars, trrVars, readVars, gzVars>>

\* create_stereo_tetrahedron that takes "odd" for even and "even" for odd.
stereo_parity_swapped(parity) ==
    IF parity = Str_odd THEN "IXA_STEREO_PARITY_EVEN"
    ELSE IF parity = Str_even THEN "IXA_STEREO_PARITY_ODD"
    ELSE IF parity = Str_none THEN "IXA_STEREO_PARITY_NONE"
    ELSE "IXA_STEREO_PARITY_UNKNOWN"

\* The parity create_stereo_tetrahedron sets.
stereo_parity(parity) ==
    IF parity = Str_odd THEN "IXA_STEREO_PARITY_ODD"
    ELSE IF parity = Str_even THEN "IXA_STEREO_PARITY_EVEN"
    ELSE IF parity = Str_none THEN "IXA_STEREO_PARITY_NONE"
    ELSE "IXA_STEREO_PARITY_UNKNOWN"

\* The toolkit's atom id of an implicit hydrogen: the index of no atom.
IXA_ATOMID_IMPLICIT_H == 0 - 1

\* The vertices create_stereo_tetrahedron passes on: an implicit hydrogen, or
\* a fourth neighbour that is a hydrogen, changes places with the first.
stereo_vertices(f, a) ==
    LET v4 == IF Len(a) >= 4 THEN a[4] ELSE IXA_ATOMID_IMPLICIT_H
    IN  IF Len(a) = 3 \/ f.elem[v4] = 1
        THEN <<v4, a[2], a[3], a[1]>>
        ELSE <<a[1], a[2], a[3], v4>>

\* create_stereo_tetrahedron: the stereocenter is created and its parity set.
WriteStereoNew ==
    /\ ipc = "w_stereo_new" /\ Running
    /\ \E d \in Diags(budget) :
        /\ CheckedCalls(d)
        /\ IF Throws(d)
           THEN UNCHANGED <<ipc, wi, mol>>
           ELSE /\ mol' = [mol EXCEPT !.stereos = Append(@,
                             [center |-> wi,
                              vertices |-> stereo_vertices(frame, adj_list(frame)[wi]),
                              parity |-> stereo_parity(
                                  substr(frame.chirality[wi], ParityPos))])]
                /\ Goto(LoopStereo(wi + 1))
    /\ UNCHANGED <<alive, frame, wk, output, parseVars, scanVars, trrVars, readVars, gzVars>>

\* writer.get_strings(), with no check_for_errors, and the two prints.
WriteStrings ==
    /\ ipc = "w_strings" /\ Running
    /\ \E d \in Diags(budget) :
        /\ Report(d)
        /\ status_' = status_ \o d
    /\ checked' = FALSE
    /\ output' = <<"inchi", "auxinfo">>
    /\ ipc' = "w_exit"
    /\ UNCHANGED <<ierr, alive, frame, wi, wk, mol, sink, parseVars, scanVars, trrVars, readVars, gzVars>>

\* ~IXAMolWrapper: when write_next returns, and when an exception leaves it.
\* IXA_MOL_Destroy is called with status_ as it is.
WriteClose ==
    /\ alive = "live"
    /\ ierr # "" \/ ipc = "w_exit"
    /\ alive' = "destroyed"
    /\ calls' = calls + 1
    /\ UNCHANGED <<ipc, ierr, frame, wi, wk, status_, mol, sink, output, budget,
                   reported, checked, parseVars, scanVars, trrVars, readVars, gzVars>>

NextWrite ==
    \/ WriteOpen
    \/ WriteAtom
    \/ WriteBondAtom
    \/ WriteBond
    \/ WriteStereo
    \/ WriteStereoAtom
    \/ WriteStereoNew
    \/ WriteStrings
    \/ WriteClose

SpecWrite == InitWrite /\ [][NextWrite]_vars

\* ---- claims on write_next

\* The write is over: the wrapper is destroyed, or its constructor threw.
WriteOver == alive = "destroyed" \/ (ipc = "w_start" /\ ierr # "")

\* The write returned normally.
WriteCompleted == alive = "destroyed" /\ ierr = ""

\* C7: every toolkit call is followed by a check of the status, get_strings
\* in the write path included: once the write is over, an ERROR the toolkit
\* reported has aborted it with an error, and every WARNING it reported has
\* been forwarded to the warning sink.
C7_EveryCallChecked ==
    (ipc # "idle" /\ WriteOver) =>
        /\ reported.errors > 0 => ierr = "problem in InChI IXA"
        /\ sink.ixa = reported.warnings

\* C8: after a checked call the status is cleared before the next toolkit
\* call, whether the check passed or threw: a toolkit call that follows a
\* check finds the status empty.
C8_StatusClearedBeforeNextCall ==
    [][(calls' > calls /\ checked) => status_ = <<>>]_vars

\* All atoms lie within eps of atom 0.
Degenerate(f) ==
    \A i \in 0..(f.size - 1) : Distance(f, 0, i) <= Eps

Tetrahedral(f, i) == starts_with(f.chirality[i], Str_tetrahedron)

\* The bonded neighbours of atom i, from the bonds themselves.
NeighboursOf(f, i) ==
    {j \in 0..(f.size - 1) : \E k \in 1..Len(f.bonds) :
         f.bonds[k] = <<i, j>> \/ f.bonds[k] = <<j, i>>}

\* The stereocenters of the toolkit molecule with atom i at the center.
StereosAt(i) == {k \in 1..Len(mol.stereos) : mol.stereos[k].center = i}

\* The write went through the turn of the stereocenter loop for atom i, or
\* went past the place of that loop.
PassedAtom(i) ==
    \/ ipc \in {"w_stereo", "w_stereo_atoms", "w_stereo_new"} /\ wi > i
    \/ ipc \in {"w_strings", "w_exit"}

TwoBondCenters(f) ==
    {i \in 0..(f.size - 1) : Tetrahedral(f, i) /\ Cardinality(NeighboursOf(f, i)) = 2}

\* C10 as stated: a write of a frame that has an atom with a tetrahedral
\* chirality property and exactly 2 bonded neighbours, once it has completed,
\* has emitted a warning and built no stereocenter for that atom.
C10_WarnsOnTwoNeighbours ==
    (WriteCompleted /\ TwoBondCenters(frame) # {}) =>
        /\ sink.writer >= 1
        /\ \A i \in TwoBondCenters(frame) : StereosAt(i) = {}

\* C10 for degenerate frames: the turn of the stereocenter loop for such an
\* atom emits one warning, builds no stereocenter, raises no error and goes on
\* to the next atom; and a write that completes has written every atom and
\* every bond, warned once for each such atom, built no stereocenter for any
\* of them, and output the identifier.
C10_WarnsOnTwoNeighboursDegenerate ==
    [][ /\ (ipc = "w_stereo" /\ Running /\ wi \in TwoBondCenters(frame)) =>
            /\ sink'.writer = sink.writer + 1
            /\ mol' = mol
            /\ ierr' = ""
            /\ alive' = "live"
            /\ ipc' \in {"w_stereo", "w_strings"}
            /\ ipc' = "w_stereo" => wi' = wi + 1
        /\ (WriteCompleted' /\ Degenerate(frame')) =>
            /\ mol'.atoms = frame'.size
            /\ Len(mol'.bonds) = Len(frame'.bonds)
            /\ sink'.writer >= Cardinality(TwoBondCenters(frame'))
            /\ \A i \in TwoBondCenters(frame') : StereosAt(i)' = {}
            /\ output' # <<>>
      ]_vars

\* A degenerate frame written to the end, with a warning for atom 0 and a
\* stereocenter at atom 1.
C10_Witness ==
    /\ WriteCompleted
    /\ Degenerate(frame)
    /\ 0 \in TwoBondCenters(frame)
    /\ sink.writer = 1
    /\ Len(mol.stereos) = 1
    /\ output # <<>>

\* write_next has called create_stereo_tetrahedron.
CreateStereoCalled ==
    \/ ipc \in {"w_stereo_atoms", "w_stereo_new"}
    \/ ierr = "assert(a.size() >= 3)"
    \/ mol.stereos # <<>>

\* C11: a write of a frame with 0 or 1 atoms never calls
\* create_stereo_tetrahedron, whatever the chirality property of the atom.
C11_NoStereoForTinyFrames ==
    (ipc # "idle" /\ frame.size <= 1) => ~CreateStereoCalled

\* A one-atom frame whose atom has a tetrahedral chirality property, written
\* to the end.
C11_Witness ==
    /\ WriteCompleted
    /\ frame.size = 1
    /\ Tetrahedral(frame, 0)
    /\ output # <<>>

\* ---- write_next on frames whose bonds have any order

\* Bond::BondOrder: the orders create_bond's switch names, and one that falls
\* to its default.
BondOrders ==
    {"SINGLE", "AMIDE", "DATIVE_L", "DATIVE_R", "UP", "DOWN",
     "WEDGE_UP", "WEDGE_DOWN", "WEDGE_EITHER",
     "DOUBLE", "EVEN_RECTANGLE", "ODD_RECTANGLE", "TRIPLE", "AROMATIC",
     "QUADRUPLE"}

\* The orders of the bonds next to the one bond whose order is any.
FewOrders == {"SINGLE", "DOUBLE", "ODD_RECTANGLE"}

\* Frames of four atoms at one place, atom 0 bonded to the three others and
\* with or without a chirality property, one bond of any order.
BondFrames ==
    { [size |-> 4,
       chirality |-> [i \in 0..3 |-> IF i = 0 THEN c ELSE <<>>],
       pos |-> [i \in 0..3 |-> 0],
       elem |-> [i \in 0..3 |-> 6],
       bonds |-> <<<<0, 1>>, <<0, 2>>, <<0, 3>>>>,
       orders |-> o] :
         c \in {<<>>, ChiralityOf(Str_tetrahedron, Str_even)},
         o \in {q \in [1..3 -> BondOrders] :
                   \E k \in 1..3 : \A j \in 1..3 : j # k => q[j] \in FewOrders} }

InitWriteBonds ==
    /\ ipc = "w_start"
    /\ ierr = ""
    /\ alive = "none"
    /\ frame \in BondFrames
    /\ wi = 0
    /\ wk = 0
    /\ status_ = <<>>
    /\ mol = EmptyMol
    /\ sink = [ixa |-> 0, writer |-> 0]
    /\ output = <<>>
    /\ budget \in 0..MaxDiags
    /\ reported = [errors |-> 0, warnings |-> 0]
    /\ calls = 0
    /\ checked = TRUE
    /\ ParseIdle
    /\ ScanIdle
    /\ TrrIdle
    /\ ReadIdle
    /\ GzIdle

SpecWriteBonds == InitWriteBonds /\ [][NextWrite]_vars

\* The bond type the orders named have on write: single for the single-like
\* orders, double for double, triple for triple.
WrittenAs(order) ==
    CASE order \in {"SINGLE", "AMIDE", "DATIVE_L", "DATIVE_R", "UP", "DOWN",
                    "WEDGE_UP", "WEDGE_DOWN", "WEDGE_EITHER"} -> {"IXA_BOND_TYPE_SINGLE"}
      [] order = "DOUBLE" -> {"IXA_BOND_TYPE_DOUBLE"}
      [] order = "TRIPLE" -> {"IXA_BOND_TYPE_TRIPLE"}
      [] OTHER -> {"IXA_BOND_TYPE_SINGLE", "IXA_BOND_TYPE_DOUBLE", "IXA_BOND_TYPE_TRIPLE",
                   "IXA_BOND_TYPE_AROMATIC", "not set"}

\* C12: the bond type set for a bond on write is a function of its order
\* alone: every bond of the toolkit molecule joins the atoms of the frame's
\* bond of the same rank, single, amide, dative, up, down and wedge orders are
\* written as single, double as double, triple as triple, and two bonds of
\* one order have one type, whatever the other bonds are.
C12_BondTypeFromOrderAlone ==
    ipc # "idle" =>
        /\ Len(mol.bonds) <= Len(frame.bonds)
        /\ \A k \in 1..Len(mol.bonds) :
            /\ mol.bonds[k].atoms = frame.bonds[k]
            /\ mol.bonds[k].type \in WrittenAs(frame.orders[k])
            /\ \A j \in 1..Len(mol.bonds) :
                   frame.orders[j] = frame.orders[k] => mol.bonds[j].type = mol.bonds[k].type

\* A frame with a wedge bond, a double bond and a single bond, written to the
\* end.
C12_Witness ==
    /\ WriteCompleted
    /\ Len(mol.bonds) = 3
    /\ frame.orders = <<"DOUBLE", "WEDGE_UP", "SINGLE">>
    /\ mol.bonds[2].type = "IXA_BOND_TYPE_SINGLE"

\* The frame holds a planar stereocenter: a bond of a rectangle order.
HasRectangle(f) ==
    \E k \in 1..Len(f.orders) : f.orders[k] \in {"EVEN_RECTANGLE", "ODD_RECTANGLE"}

\* C13: a write of a frame with a bond of order even-rectangle or
\* odd-rectangle fails: it never returns normally and it outputs nothing.
C13_RectangleNotSupported ==
    (ipc # "idle" /\ HasRectangle(frame)) => (~WriteCompleted /\ output = <<>>)

\* ------------------------------------------------------------------------
\* GzFile and gzstreambuf

GzPaths == {"data/xyz/water.9.xyz.gz", "not existing"}
GzLines == {"297", "Test"}
FileModes == {"READ", "WRITE", "APPEND"}

\* What a path may hold: no file, or a file of a few lines.
NoFile == [exists |-> FALSE, lines |-> <<>>]
GzContents == {NoFile} \cup {[exists |-> TRUE, lines |-> l] : l \in SeqsUpTo(GzLines, MaxGzLines)}

\* GzFile's choice of the zlib mode that opens the file for appending.
open_mode_appends(mode) ==
    CASE mode = "READ" -> [ok |-> TRUE, zmode |-> "rb"]
      [] mode = "WRITE" -> [ok |-> TRUE, zmode |-> "wb"]
      [] mode = "APPEND" -> [ok |-> TRUE, zmode |-> "ab"]

\* GzFile's choice of the zlib mode for a File::Mode; appending is refused.
open_mode(mode) ==
    CASE mode = "READ" -> [ok |-> TRUE, zmode |-> "rb"]
      [] mode = "WRITE" -> [ok |-> TRUE, zmode |-> "wb"]
      [] mode = "APPEND" ->
            [ok |-> FALSE,
             error |-> "appending (open mode 'a') is not supported with gziped files"]

\* zlib's gzopen of path on the files d: the files after it, and whether it
\* gave a file. Reading wants the file to exist, writing empties it, appending
\* writes a new gzip header at its end.
gzopen(d, path, zmode) ==
    CASE zmode = "rb" -> [disk |-> d, ok |-> d[path].exists]
      [] zmode = "wb" -> [disk |-> [d EXCEPT ![path] = [exists |-> TRUE, lines |-> <<>>]],
                          ok |-> TRUE]
      [] zmode = "ab" -> [disk |-> [d EXCEPT ![path] =
                                       [exists |-> TRUE, lines |-> Append(d[path].lines, "header")]],
                          ok |-> TRUE]

\* gzstreambuf::open that opens again over an open file.
gzstreambuf_open_again(h, d, path, zmode) ==
    LET o == gzopen(d, path, zmode)
    IN  [gz |-> IF o.ok
                THEN [open |-> TRUE, gone |-> FALSE, path |-> path, mode |-> zmode, pos |-> 0]
                ELSE h,
         disk |-> o.disk, error |-> ""]

\* gzstreambuf::open on the handle h: the handle and the files after it, and
\* the error thrown.
gzstreambuf_open(h, d, path, zmode) ==
    IF h.open
    THEN [gz |-> h, disk |-> d,
          error |-> "can not open a gz file twice with the same gzstreambuf"]
    ELSE LET o == gzopen(d, path, zmode)
         IN  [gz |-> IF o.ok
                     THEN [open |-> TRUE, gone |-> FALSE, path |-> path, mode |-> zmode, pos |-> 0]
                     ELSE h,
              disk |-> o.disk, error |-> ""]

InitGz ==
    /\ disk \in [GzPaths -> GzContents]
    /\ gz = ClosedGz
    /\ gerr = ""
    /\ glast = [call |-> "none"]
    /\ ParseIdle
    /\ ScanIdle
    /\ TrrIdle
    /\ InChIIdle
    /\ ReadIdle

\* The call made now, after the last one.
Called(call) == [call EXCEPT !.prev = glast.call, !.preverr = gerr]

\* GzFile::GzFile(path, mode), on a gzstreambuf of its own
GzFileOpen ==
    /\ ~gz.open /\ ~gz.gone
    /\ \E path \in GzPaths, mode \in FileModes :
        LET m == open_mode(mode)
            o == gzstreambuf_open(gz, disk, path, m.zmode)
        IN  /\ glast' = Called([call |-> "GzFile", path |-> path, mode |-> mode,
                                prev |-> "", preverr |-> ""])
            /\ IF ~m.ok
               THEN gerr' = m.error /\ UNCHANGED <<gz, disk>>
               ELSE /\ gz' = o.gz
                    /\ disk' = o.disk
                    /\ gerr' = IF o.gz.open THEN "" ELSE "could not open the file at"
    /\ UNCHANGED <<parseVars, scanVars, trrVars, inchiVars, readVars>>

\* gzstreambuf::open(path, mode), called on the handle as it is
StreambufOpen ==
    /\ ~gz.gone
    /\ \E path \in GzPaths, zmode \in {"rb", "wb"} :
        LET o == gzstreambuf_open(gz, disk, path, zmode)
        IN  /\ glast' = Called([call |-> "gzstreambuf::open", path |-> path,
                                mode |-> zmode, prev |-> "", preverr |-> ""])
            /\ gz' = o.gz
            /\ disk' = o.disk
            /\ gerr' = o.error
    /\ UNCHANGED <<parseVars, scanVars, trrVars, inchiVars, readVars>>

\* GzFile::readline
GzReadline ==
    /\ gz.open /\ gz.mode = "rb"
    /\ gz.pos < Len(disk[gz.path].lines)
    /\ gz' = [gz EXCEPT !.pos = @ + 1]
    /\ glast' = Called([call |-> "readline", path |-> gz.path,
                        mode |-> disk[gz.path].lines[gz.pos + 1],
                        prev |-> "", preverr |-> ""])
    /\ gerr' = ""
    /\ UNCHANGED <<disk, parseVars, scanVars, trrVars, inchiVars, readVars>>

\* GzFile::rewind
GzRewind ==
    /\ gz.open /\ gz.mode = "rb"
    /\ gz.pos > 0
    /\ gz' = [gz EXCEPT !.pos = 0]
    /\ glast' = Called([call |-> "rewind", path |-> gz.path, mode |-> "",
                        prev |-> "", preverr |-> ""])
    /\ gerr' = ""
    /\ UNCHANGED <<disk, parseVars, scanVars, trrVars, inchiVars, readVars>>

\* file << line << std::endl
GzWrite ==
    /\ gz.open /\ gz.mode \in {"wb", "ab"}
    /\ Len(disk[gz.path].lines) < MaxGzLines
    /\ \E l \in GzLines :
        /\ disk' = [disk EXCEPT ![gz.path].lines = Append(@, l)]
        /\ glast' = Called([call |-> "write", path |-> gz.path, mode |-> l,
                            prev |-> "", preverr |-> ""])
    /\ gerr' = ""
    /\ UNCHANGED <<gz, parseVars, scanVars, trrVars, inchiVars, readVars>>

\* The gzstreambuf goes out of scope.
GzDestroy ==
    /\ ~gz.gone
    /\ glast.call # "none"
    /\ gz' = [ClosedGz EXCEPT !.gone = TRUE]
    /\ glast' = Called([call |-> "destroy", path |-> "", mode |-> "",
                        prev |-> "", preverr |-> ""])
    /\ gerr' = ""
    /\ UNCHANGED <<disk, parseVars, scanVars, trrVars, inchiVars, readVars>>

NextGz ==
    \/ GzFileOpen
    \/ StreambufOpen
    \/ GzReadline
    \/ GzRewind
    \/ GzWrite
    \/ GzDestroy

SpecGz == InitGz /\ [][NextGz]_vars

\* C14: opening a gzip file for appending fails with the error 'appending
\* (open mode 'a') is not supported with gziped files', and at open: the
\* files are as they were and the stream is not open.
C14_AppendFailsAtOpen ==
    [][(glast'.call = "GzFile" /\ glast'.mode = "APPEND") =>
          /\ gerr' = "appending (open mode 'a') is not supported with gziped files"
          /\ disk' = disk
          /\ ~gz'.open
      ]_vars

\* An existing file with lines in it has just been opened for appending.
C14_Witness ==
    /\ glast.call = "GzFile"
    /\ glast.mode = "APPEND"
    /\ disk[glast.path].lines # <<>>
    /\ gerr # ""

\* C15: a gzstreambuf is opened once: on an open gzstreambuf every further
\* open fails with 'can not open a gz file twice with the same gzstreambuf',
\* and leaves the stream, its position and the files as they were.
C15_SingleOpen ==
    [][(gz.open /\ glast'.call = "gzstreambuf::open") =>
          /\ gerr' = "can not open a gz file twice with the same gzstreambuf"
          /\ gz' = gz
          /\ disk' = disk
      ]_vars

\* A line is read, the open stream is opened again and fails, and the next
\* line is read.
C15_Witness ==
    /\ glast.call = "readline"
    /\ glast.prev = "gzstreambuf::open"
    /\ glast.preverr = "can not open a gz file twice with the same gzstreambuf"
    /\ gz.open
    /\ gz.pos = 2

\* C16: the assert at the start of create_stereo_tetrahedron holds on every
\* call write_next makes: the call is made for an atom of the frame, with a
\* list of at least 3 neighbours, each the index of an atom of the frame.
C16_StereoCallArguments ==
    ipc # "idle" =>
        /\ ierr # "assert(a.size() >= 3)"
        /\ ipc \in {"w_stereo_atoms", "w_stereo_new"} =>
            /\ wi \in 0..(frame.size - 1)
            /\ Len(adj_list(frame)[wi]) >= 3
            /\ \A k \in 1..Len(adj_list(frame)[wi]) :
                   adj_list(frame)[wi][k] \in 0..(frame.size - 1)

\* create_stereo_tetrahedron is running for atom 1 and its three neighbours.
C16_Witness ==
    /\ ipc = "w_stereo_new"
    /\ ierr = ""
    /\ wi = 1
    /\ adj_list(frame)[wi] = <<0, 2, 3>>

\* ------------------------------------------------------------------------
\* InChIFormat::read_next, and write_next on the frame read

Parities == {"IXA_STEREO_PARITY_EVEN", "IXA_STEREO_PARITY_ODD",
             "IXA_STEREO_PARITY_NONE", "IXA_STEREO_PARITY_UNKNOWN"}

Topologies == {"IXA_STEREO_TOPOLOGY_TETRAHEDRON", "IXA_STEREO_TOPOLOGY_ANTIRECTANGLE",
               "IXA_STEREO_TOPOLOGY_RECTANGLE", "IXA_STEREO_TOPOLOGY_INVALID"}

\* The stereocenters of the molecules read: atom 0 at the center, the bond
\* of rank 1 at the center of a rectangle.
ReadStereos ==
    [topology : Topologies, parity : Parities, center : {0}, bond : {1}]

\* The molecules the toolkit gives for the lines read: four atoms, atom 0
\* bonded to the three others, the last atom at the place of the others or
\* away from them.
ReadMols ==
    { [atoms |-> [i \in 1..4 |-> [elem |-> 6, pos |-> IF i = 4 THEN p ELSE 0]],
       bonds |-> <<[atoms |-> <<0, 1>>, type |-> t],
                   [atoms |-> <<0, 2>>, type |-> "IXA_BOND_TYPE_SINGLE"],
                   [atoms |-> <<0, 3>>, type |-> "IXA_BOND_TYPE_SINGLE"]>>,
       stereos |-> st] :
         p \in {0, Eps + 1},
         t \in {"IXA_BOND_TYPE_SINGLE", "IXA_BOND_TYPE_DOUBLE", "IXA_BOND_TYPE_AROMATIC"},
         st \in SeqsUpTo(ReadStereos, MaxStereos) }

\* Frame::Frame
EmptyFrame ==
    [size |-> 0, chirality |-> <<>>, pos |-> <<>>, elem |-> <<>>,
     bonds |-> <<>>, orders |-> <<>>]

\* The per-atom data fn of n atoms, with v for one atom more.
WithAtom(fn, n, v) == [i \in 0..n |-> IF i < n THEN fn[i] ELSE v]

\* frame.add_atom(atom, position)
add_atom(f, elem, pos) ==
    [f EXCEPT !.size = @ + 1,
              !.chirality = WithAtom(@, f.size, <<>>),
              !.pos = WithAtom(@, f.size, pos),
              !.elem = WithAtom(@, f.size, elem)]

BondBefore(b, c) == b[1] < c[1] \/ (b[1] = c[1] /\ b[2] < c[2])

\* frame.add_bond(i, j, order): the bonds stay sorted, orders along with them.
add_bond(f, i, j, order) ==
    LET b == IF i < j THEN <<i, j>> ELSE <<j, i>>
        before == Cardinality({k \in 1..Len(f.bonds) : BondBefore(f.bonds[k], b)})
    IN  [f EXCEPT !.bonds = SubSeq(@, 1, before) \o <<b>> \o SubSeq(@, before + 1, Len(@)),
                  !.orders = SubSeq(@, 1, before) \o <<order>> \o SubSeq(@, before + 1, Len(@))]

\* frame.remove_bond(i, j)
remove_bond(f, i, j) ==
    LET b == IF i < j THEN <<i, j>> ELSE <<j, i>>
        keep == {k \in 1..Len(f.bonds) : f.bonds[k] # b}
        before == Cardinality({k \in keep : BondBefore(f.bonds[k], b)})
    IN  IF Cardinality(keep) = Len(f.bonds) THEN f
        ELSE [f EXCEPT !.bonds = SubSeq(@, 1, before) \o SubSeq(@, before + 2, Len(@)),
                       !.orders = SubSeq(@, 1, before) \o SubSeq(@, before + 2, Len(@))]

\* The bond order read_next gives a toolkit bond type, and whether it warns.
read_bond_order(type) ==
    CASE type = "IXA_BOND_TYPE_SINGLE" -> [bo |-> "SINGLE", warns |-> FALSE]
      [] type = "IXA_BOND_TYPE_DOUBLE" -> [bo |-> "DOUBLE", warns |-> FALSE]
      [] type = "IXA_BOND_TYPE_TRIPLE" -> [bo |-> "TRIPLE", warns |-> FALSE]
      [] type = "IXA_BOND_TYPE_AROMATIC" -> [bo |-> "SINGLE", warns |-> TRUE]
      [] OTHER -> [bo |-> "SINGLE", warns |-> FALSE]

\* The word read_next puts after center_type for a parity.
read_parity(parity) ==
    IF parity = "IXA_STEREO_PARITY_EVEN" THEN Str_even
    ELSE IF parity = "IXA_STEREO_PARITY_ODD" THEN Str_odd
    ELSE IF parity = "IXA_STEREO_PARITY_NONE" THEN Str_none
    ELSE Str_unknown

\* One turn of read_next's loop over the stereocenters: the frame after it.
read_stereo(f, m, st) ==
    LET bond == m.bonds[st.bond].atoms
        cleared == remove_bond(f, bond[1], bond[2])
    IN  CASE st.topology = "IXA_STEREO_TOPOLOGY_ANTIRECTANGLE" ->
               [f EXCEPT !.chirality[st.center] =
                    ChiralityOf(Str_antirectangle, read_parity(st.parity))]
          [] st.topology = "IXA_STEREO_TOPOLOGY_TETRAHEDRON" ->
               [f EXCEPT !.chirality[st.center] =
                    ChiralityOf(Str_tetrahedron, read_parity(st.parity))]
          [] st.topology = "IXA_STEREO_TOPOLOGY_RECTANGLE" ->
               IF st.parity = "IXA_STEREO_PARITY_EVEN"
               THEN add_bond(cleared, bond[1], bond[2], "EVEN_RECTANGLE")
               ELSE IF st.parity = "IXA_STEREO_PARITY_ODD"
               THEN add_bond(cleared, bond[1], bond[2], "ODD_RECTANGLE")
               ELSE IF st.parity = "IXA_STEREO_PARITY_UNKNOWN"
               THEN add_bond(cleared, bond[1], bond[2], "DOUBLE")
               ELSE f
          [] OTHER -> f

InitRead ==
    /\ ipc = "r_start"
    /\ ierr = ""
    /\ alive = "none"
    /\ frame = EmptyFrame
    /\ wi = 0
    /\ wk = 0
    /\ status_ = <<>>
    /\ mol = EmptyMol
    /\ rmol \in ReadMols
    /\ sink = [ixa |-> 0, writer |-> 0, reader |-> 0]
    /\ output = <<>>
    /\ budget \in 0..MaxDiags
    /\ reported = [errors |-> 0, warnings |-> 0]
    /\ calls = 0
    /\ checked = TRUE
    /\ ParseIdle
    /\ ScanIdle
    /\ TrrIdle
    /\ GzIdle

\* Where read_next goes on: its loops over the stereocenters, the bonds and
\* the atoms of the molecule.
ReadLoopStereos(i) ==
    IF i < Len(rmol.stereos) THEN [pc |-> "r_stereos", i |-> i]
    ELSE [pc |-> "r_exit", i |-> 0]

ReadLoopBonds(i) ==
    IF i < Len(rmol.bonds) THEN [pc |-> "r_bonds", i |-> i] ELSE ReadLoopStereos(0)

ReadLoopAtoms(i) ==
    IF i < Len(rmol.atoms) THEN [pc |-> "r_atoms", i |-> i] ELSE ReadLoopBonds(0)

\* IXAMolWrapper mol: the constructor. When it throws, no destructor runs.
ReadOpen ==
    /\ ipc = "r_start" /\ alive = "none" /\ ierr = ""
    /\ \E d \in Diags(budget) :
        /\ CheckedCalls(d)
        /\ IF Throws(d)
           THEN UNCHANGED <<ipc, alive>>
           ELSE alive' = "live" /\ ipc' = "r_string"
    /\ UNCHANGED <<frame, wi, wk, mol, output, rmol, parseVars, scanVars, trrVars, gzVars>>

\* mol.read_string(inchi)
ReadString ==
    /\ ipc = "r_string" /\ Running
    /\ \E d \in Diags(budget) :
        /\ CheckedCalls(d)
        /\ IF Throws(d) THEN UNCHANGED <<ipc, wi>> ELSE Goto(ReadLoopAtoms(0))
    /\ UNCHANGED <<alive, frame, wk, mol, output, rmol, parseVars, scanVars, trrVars, gzVars>>

\* One turn of the loop over the atoms: mol.atom(i), then get_atom and
\* atom_position in either order. check_for_errors ends atom_position, and no
\* check follows get_atom's calls: what they report when they come last stays
\* in status_.
ReadAtom ==
    /\ ipc = "r_atoms" /\ Running
    /\ LET a == rmol.atoms[wi + 1]
           read == add_atom(frame, a.elem, a.pos)
       IN  \E d \in Diags(budget), last \in {"atom_position", "get_atom"} :
            IF last = "get_atom" /\ d # <<>> /\ ~check_for_errors(status_).throws
            THEN /\ Report(d)
                 /\ status_' = d
                 /\ sink' = [sink EXCEPT !.ixa = @ + check_for_errors(status_).warned]
                 /\ checked' = FALSE
                 /\ ierr' = ""
                 /\ frame' = read
                 /\ Goto(ReadLoopAtoms(wi + 1))
            ELSE /\ CheckedCalls(d)
                 /\ IF Throws(d)
                    THEN UNCHANGED <<ipc, wi, frame>>
                    ELSE frame' = read /\ Goto(ReadLoopAtoms(wi + 1))
    /\ UNCHANGED <<alive, wk, mol, output, rmol, parseVars, scanVars, trrVars, gzVars>>

\* One turn of the loop over the bonds.
ReadBond ==
    /\ ipc = "r_bonds" /\ Running
    /\ LET b == rmol.bonds[wi + 1]
           o == read_bond_order(b.type)
       IN  \E d \in Diags(budget) :
            LET c == check_for_errors(status_ \o d)
            IN  /\ Report(d)
                /\ status_' = c.status
                /\ checked' = TRUE
                /\ ierr' = IF c.throws THEN "problem in InChI IXA" ELSE ""
                /\ IF c.throws
                   THEN /\ sink' = [sink EXCEPT !.ixa = @ + c.warned]
                        /\ UNCHANGED <<ipc, wi, frame>>
                   ELSE /\ sink' = [sink EXCEPT !.ixa = @ + c.warned,
                                                !.reader = @ + (IF o.warns THEN 1 ELSE 0)]
                        /\ frame' = add_bond(frame, b.atoms[1], b.atoms[2], o.bo)
                        /\ Goto(ReadLoopBonds(wi + 1))
    /\ UNCHANGED <<alive, wk, mol, output, rmol, parseVars, scanVars, trrVars, gzVars>>

\* One turn of the loop over the stereocenters.
ReadStereo ==
    /\ ipc = "r_stereos" /\ Running
    /\ \E d \in Diags(budget) :
        /\ CheckedCalls(d)
        /\ IF Throws(d)
           THEN UNCHANGED <<ipc, wi, frame>>
           ELSE /\ frame' = read_stereo(frame, rmol, rmol.stereos[wi + 1])
                /\ Goto(ReadLoopStereos(wi + 1))
    /\ UNCHANGED <<alive, wk, mol, output, rmol, parseVars, scanVars, trrVars, gzVars>>

\* read_next returns: ~IXAMolWrapper
ReadClose ==
    /\ ipc = "r_exit" /\ Running
    /\ alive' = "destroyed"
    /\ calls' = calls + 1
    /\ UNCHANGED <<ipc, ierr, frame, wi, wk, status_, mol, sink, output, budget,
                   reported, checked, rmol, parseVars, scanVars, trrVars, gzVars>>

\* The frame read is given to write_next, which has a wrapper of its own.
WriteBack ==
    /\ ipc = "r_exit" /\ alive = "destroyed" /\ ierr = ""
    /\ ipc' = "w_start"
    /\ alive' = "none"
    /\ status_' = <<>>
    /\ checked' = TRUE
    /\ UNCHANGED <<ierr, frame, wi, wk, mol, sink, output, budget, reported, calls,
                   rmol, parseVars, scanVars, trrVars, gzVars>>

NextRoundTrip ==
    \/ ReadOpen
    \/ ReadString
    \/ ReadAtom
    \/ ReadBond
    \/ ReadStereo
    \/ ReadClose
    \/ WriteBack
    \/ NextWrite

SpecRoundTrip == InitRead /\ [][NextRoundTrip]_vars

\* The word for a parity in a chirality property.
ParityWord(parity) ==
    CASE parity = "IXA_STEREO_PARITY_EVEN" -> Str_even
      [] parity = "IXA_STEREO_PARITY_ODD" -> Str_odd
      [] parity = "IXA_STEREO_PARITY_NONE" -> Str_none
      [] parity = "IXA_STEREO_PARITY_UNKNOWN" -> Str_unknown

\* How many stereocenters of the molecule read_next has gone through.
StereosRead ==
    IF ipc \in {"r_start", "r_string", "r_atoms", "r_bonds"} THEN 0
    ELSE IF ipc = "r_stereos" THEN wi
    ELSE Len(rmol.stereos)

\* The stereocenters gone through that set the chirality of atom c, and the
\* last of them.
SetsChirality(c) ==
    {k \in 1..StereosRead :
         /\ rmol.stereos[k].center = c
         /\ rmol.stereos[k].topology \in {"IXA_STEREO_TOPOLOGY_TETRAHEDRON",
                                          "IXA_STEREO_TOPOLOGY_ANTIRECTANGLE"}}

LastFor(c) == CHOOSE k \in SetsChirality(c) : \A j \in SetsChirality(c) : j <= k

\* C17: the parity of a tetrahedral stereocenter goes through read and write
\* unchanged. An atom whose chirality was last set from a tetrahedral
\* stereocenter of parity p has the property "tetrahedron_" followed by the
\* word for p; a stereocenter built on write for an atom with that property
\* has parity p, and a write that completes on a degenerate frame has built
\* exactly one for such an atom with at least 3 neighbours; an atom whose
\* chirality was last set from an antirectangle stereocenter has a property
\* that starts with "antirectangle_" and gets no stereocenter on write.
C17_ParityRoundTrip ==
    ipc # "idle" =>
        \A c \in 0..(frame.size - 1) :
            /\ \A j \in StereosAt(c), p \in Parities :
                   frame.chirality[c] = ChiralityOf(Str_tetrahedron, ParityWord(p))
                       => mol.stereos[j].parity = p
            /\ SetsChirality(c) # {} =>
                LET st == rmol.stereos[LastFor(c)]
                IN  IF st.topology = "IXA_STEREO_TOPOLOGY_TETRAHEDRON"
                    THEN /\ frame.chirality[c] =
                                ChiralityOf(Str_tetrahedron, ParityWord(st.parity))
                         /\ (WriteCompleted /\ ipc = "w_exit" /\ Degenerate(frame)
                                 /\ Cardinality(NeighboursOf(frame, c)) >= 3) =>
                                /\ Cardinality(StereosAt(c)) = 1
                                /\ \A j \in StereosAt(c) : mol.stereos[j].parity = st.parity
                    ELSE /\ frame.chirality[c] =
                                ChiralityOf(Str_antirectangle, ParityWord(st.parity))
                         /\ StereosAt(c) = {}

\* A tetrahedral stereocenter of unknown parity, read and written back.
C17_Witness ==
    /\ WriteCompleted
    /\ ipc = "w_exit"
    /\ Len(rmol.stereos) = 1
    /\ rmol.stereos[1].topology = "IXA_STEREO_TOPOLOGY_TETRAHEDRON"
    /\ rmol.stereos[1].parity = "IXA_STEREO_PARITY_UNKNOWN"
    /\ Len(mol.stereos) = 1
    /\ mol.stereos[1].parity = "IXA_STEREO_PARITY_UNKNOWN"

====
